---- MODULE Spec2Model ----
(***************************************************************************)
(* Model of the weather pipeline of mcp-learning-exercise:                 *)
(*   open_weather_api_helper.py  fetch_weather, parse_weather_data,        *)
(*                               get_weather, get_forecast                 *)
(*   server.py                   the get_weather / get_forecast tools and  *)
(*                               the weather://{city} resource             *)
(* Python dicts are functions over string keys, lists are sequences, None  *)
(* is the string "None", and every JSON leaf value is a string.  A raised  *)
(* exception is the outcome [raise |-> <exception name>].                  *)
(***************************************************************************)
EXTENDS Integers, Sequences, FiniteSets, TLC

VARIABLES pc, op, city, days, it, day, inflight, response, data, parsed,
          forecast, fetchCalls, fetched, result, exc

vars == <<pc, op, city, days, it, day, inflight, response, data, parsed,
          forecast, fetchCalls, fetched, result, exc>>

(* ------------------------------ bounds --------------------------------- *)
MaxDays == 3

(* --------------------------- Python values ----------------------------- *)
None == "None"
EmptyDict == [k \in {} |-> None]
Unset == [unset |-> "unset"]
Raise(e) == [raise |-> e]
IsRaise(o) == "raise" \in DOMAIN o

\* key in d
Has(d, k) == k \in DOMAIN d
\* d.get(k, default)
Get(d, k, default) == IF k \in DOMAIN d THEN d[k] ELSE default
\* the dict d cut down to the keys in S
Restrict(d, S) == [k \in S |-> d[k]]

API_KEY == "OPENWEATHER_API_KEY"
BASE_URL == "http://api.openweathermap.org/data/2.5/weather"
FetchError == [error |-> "Unable to fetch weather data"]

(* ------------------------ the provider's payloads ---------------------- *)
Temps == {"18.5", "12.0"}
Humidities == {"60", "81"}
Descriptions == {"clear sky", "light rain"}
Speeds == {"3.1", "5.7"}
Names == {"Paris", "London"}
Errors == {"Unable to fetch weather data", "city not found"}

MainDicts == {Restrict(m, S) : m \in [temp : Temps, humidity : Humidities],
                               S \in SUBSET {"temp", "humidity"}}
WeatherLists == {<<>>, <<EmptyDict>>, <<[description |-> "clear sky"]>>,
                 <<[description |-> "light rain"]>>,
                 <<[description |-> "clear sky"], [description |-> "light rain"]>>}
WindDicts == {EmptyDict} \cup [speed : Speeds]

\* every raw payload: each top-level key present or missing
Payloads ==
    {Restrict(p, S) : p \in [name : Names, main : MainDicts, weather : WeatherLists,
                             wind : WindDicts, error : Errors],
                      S \in SUBSET {"name", "main", "weather", "wind", "error"}}

ParisBody == [name |-> "Paris", main |-> [temp |-> "18.5", humidity |-> "60"],
              weather |-> <<[description |-> "clear sky"]>>, wind |-> [speed |-> "3.1"]]
LondonBody == [name |-> "London", main |-> [temp |-> "12.0", humidity |-> "81"],
               weather |-> <<[description |-> "light rain"]>>, wind |-> [speed |-> "5.7"]]
NoWeatherBody == [name |-> "Paris", main |-> [temp |-> "18.5", humidity |-> "60"],
                  weather |-> <<>>, wind |-> [speed |-> "3.1"]]
SparseBody == [name |-> "London"]
ErrorBody == [error |-> "city not found", name |-> "Paris"]

\* the JSON bodies the provider answers with in the pipeline runs
Bodies == {ParisBody, LondonBody, NoWeatherBody, SparseBody, ErrorBody}
StatusCodes == {200, 201, 404, 500}
Cities == {"Paris", "Nowhere"}
Days == (0 - 1) .. MaxDays

NoResponse == [status_code |-> 0, body |-> Unset]

(* --------------------- open_weather_api_helper.py ---------------------- *)
\* the params dict of fetch_weather
Params(c) == [q |-> c, appid |-> API_KEY, units |-> "metric"]

\* response.json()
json(resp) == resp.body

fetch_weather_ok(resp) ==
    IF resp.status_code < 400 THEN json(resp) ELSE FetchError

\* the tail of fetch_weather: the status check and the two returns
fetch_weather_return(resp) ==
    IF resp.status_code = 200 THEN json(resp) ELSE FetchError

parse_weather_data_last(d) ==
    IF Has(d, "error") THEN [error |-> d["error"]]
    ELSE LET main == Get(d, "main", EmptyDict)
             wl == Get(d, "weather", <<EmptyDict>>)
         IN IF Len(wl) = 0 THEN Raise("IndexError")
            ELSE LET weather == wl[Len(wl)]
                 IN [city |-> Get(d, "name", None),
                     temperature |-> Get(main, "temp", None),
                     condition |-> Get(weather, "description", None),
                     humidity |-> Get(main, "humidity", None),
                     wind_speed |-> Get(Get(d, "wind", EmptyDict), "speed", None)]

parse_weather_data(d) ==
    IF Has(d, "error") THEN [error |-> d["error"]]
    ELSE LET main == Get(d, "main", EmptyDict)
             wl == Get(d, "weather", <<EmptyDict>>)
         IN \* [0] of an empty list raises IndexError
            IF Len(wl) = 0 THEN Raise("IndexError")
            ELSE LET weather == wl[1]
                 IN [city |-> Get(d, "name", None),
                     temperature |-> Get(main, "temp", None),
                     condition |-> Get(weather, "description", None),
                     humidity |-> Get(main, "humidity", None),
                     wind_speed |-> Get(Get(d, "wind", EmptyDict), "speed", None)]

range_inclusive(start, stop) ==
    [i \in 1 .. (IF stop >= start THEN stop - start + 1 ELSE 0) |-> start + i - 1]

\* range(start, stop)
range(start, stop) ==
    [i \in 1 .. (IF stop > start THEN stop - start ELSE 0) |-> start + i - 1]

ShouldAppend_always(p) == TRUE

\* the test of get_forecast: "error" not in parsed
ShouldAppend(p) == ~Has(p, "error")

ForecastOps == {"get_forecast", "tool_get_forecast"}
WeatherOps == {"get_weather", "tool_get_weather", "resource"}
Ops == {"fetch_weather"} \cup WeatherOps \cup ForecastOps
Terminated == pc \in {"returned", "raised"}

Init ==
    /\ pc = "idle"
    /\ op = "none"
    /\ city = "none"
    /\ days = 0
    /\ it = 0
    /\ day = 0
    /\ inflight = <<>>
    /\ response = NoResponse
    /\ data = Unset
    /\ parsed = Unset
    /\ forecast = <<>>
    /\ fetchCalls = 0
    /\ fetched = <<>>
    /\ result = Unset
    /\ exc = None

\* a caller enters one of the operations
Call ==
    /\ pc = "idle"
    /\ \E o \in Ops, c \in Cities, d \in Days :
         /\ op' = o
         /\ city' = c
         /\ days' = IF o \in ForecastOps THEN d ELSE 0
         /\ pc' = IF o \in ForecastOps THEN "loop" ELSE "fetch"
    /\ UNCHANGED <<it, day, inflight, response, data, parsed, forecast,
                   fetchCalls, fetched, result, exc>>

\* get_forecast: the head of "for day in range(1, days + 1)"
ForecastLoop ==
    /\ pc = "loop"
    /\ IF it < Len(range(1, days + 1))
       THEN /\ it' = it + 1
            /\ day' = range(1, days + 1)[it + 1]
            /\ pc' = "fetch"
            /\ UNCHANGED result
       ELSE /\ result' = forecast
            /\ pc' = "returned"
            /\ UNCHANGED <<it, day>>
    /\ UNCHANGED <<op, city, days, inflight, response, data, parsed, forecast,
                   fetchCalls, fetched, exc>>

FetchIssue_eager ==
    /\ pc = "fetch"
    /\ inflight' = Append(inflight, [url |-> BASE_URL, params |-> Params(city)])
    /\ fetchCalls' = fetchCalls + 1
    /\ pc' = IF op \in ForecastOps THEN "loop" ELSE "wait"
    /\ UNCHANGED <<op, city, days, it, day, response, data, parsed, forecast,
                   fetched, result, exc>>

\* fetch_weather: requests.get sends the request and blocks
FetchIssue ==
    /\ pc = "fetch"
    /\ inflight' = Append(inflight, [url |-> BASE_URL, params |-> Params(city)])
    /\ fetchCalls' = fetchCalls + 1
    /\ pc' = "wait"
    /\ UNCHANGED <<op, city, days, it, day, response, data, parsed, forecast,
                   fetched, result, exc>>

\* the provider answers the request in flight
ProviderRespond ==
    /\ pc = "wait"
    /\ inflight # <<>>
    /\ \E s \in StatusCodes, b \in Bodies :
         response' = [status_code |-> s, body |-> b]
    /\ inflight' = Tail(inflight)
    /\ pc' = "status"
    /\ UNCHANGED <<op, city, days, it, day, data, parsed, forecast,
                   fetchCalls, fetched, result, exc>>

\* requests.get raises (timeout, DNS, refused); nothing catches it
TransportFailure ==
    /\ pc = "wait"
    /\ inflight # <<>>
    /\ inflight' = Tail(inflight)
    /\ exc' = "ConnectionError"
    /\ pc' = "raised"
    /\ UNCHANGED <<op, city, days, it, day, response, data, parsed, forecast,
                   fetchCalls, fetched, result>>

\* fetch_weather returns to its caller
FetchReturn ==
    /\ pc = "status"
    /\ data' = fetch_weather_return(response)
    /\ fetched' = Append(fetched, fetch_weather_return(response))
    /\ IF op = "fetch_weather"
       THEN /\ result' = fetch_weather_return(response)
            /\ pc' = "returned"
       ELSE /\ pc' = "parse"
            /\ UNCHANGED result
    /\ UNCHANGED <<op, city, days, it, day, inflight, response, parsed, forecast,
                   fetchCalls, exc>>

Parse_skip ==
    /\ pc = "parse"
    /\ parsed' = data
    /\ CASE op \in {"get_weather", "parse_weather_data"} ->
              /\ result' = data
              /\ pc' = "returned"
         [] op \in {"tool_get_weather", "resource"} ->
              /\ pc' = "log"
              /\ UNCHANGED result
         [] OTHER ->
              /\ pc' = "append"
              /\ UNCHANGED result
    /\ UNCHANGED <<op, city, days, it, day, inflight, response, data, forecast,
                   fetchCalls, fetched, exc>>

\* parse_weather_data(data), and get_weather's return of it
Parse ==
    /\ pc = "parse"
    /\ LET p == parse_weather_data(data)
       IN IF IsRaise(p)
          THEN /\ exc' = p["raise"]
               /\ pc' = "raised"
               /\ UNCHANGED <<parsed, result>>
          ELSE /\ parsed' = p
               /\ UNCHANGED exc
               /\ CASE op \in {"get_weather", "parse_weather_data"} ->
                         /\ result' = p
                         /\ pc' = "returned"
                    [] op \in {"tool_get_weather", "resource"} ->
                         /\ pc' = "log"
                         /\ UNCHANGED result
                    [] OTHER ->
                         /\ pc' = "append"
                         /\ UNCHANGED result
    /\ UNCHANGED <<op, city, days, it, day, inflight, response, data, forecast,
                   fetchCalls, fetched>>

\* get_forecast: the conditional append that ends one iteration
ForecastAppend ==
    /\ pc = "append"
    /\ forecast' = IF ShouldAppend(parsed) THEN Append(forecast, parsed) ELSE forecast
    /\ pc' = "loop"
    /\ UNCHANGED <<op, city, days, it, day, inflight, response, data, parsed,
                   fetchCalls, fetched, result, exc>>

(* ------------------------------ server.py ------------------------------ *)
\* the get_weather tool: the logger.info line that indexes the record, then return
ToolLog ==
    /\ pc = "log"
    /\ IF Has(parsed, "condition") /\ Has(parsed, "temperature")
       THEN /\ UNCHANGED exc
            /\ IF op = "resource"
               THEN /\ pc' = "format"
                    /\ UNCHANGED result
               ELSE /\ result' = parsed
                    /\ pc' = "returned"
       ELSE /\ exc' = "KeyError"
            /\ pc' = "raised"
            /\ UNCHANGED result
    /\ UNCHANGED <<op, city, days, it, day, inflight, response, data, parsed,
                   forecast, fetchCalls, fetched>>

\* get_city_weather_resource: the f-string over the tool's record
ResourceFormat ==
    /\ pc = "format"
    /\ IF \A k \in {"city", "condition", "temperature", "humidity", "wind_speed"} :
            Has(parsed, k)
       THEN /\ result' = <<"Current weather in ", parsed["city"], ": ",
                           parsed["condition"], ", ", parsed["temperature"],
                           " C, Humidity: ", parsed["humidity"], "%, Wind: ",
                           parsed["wind_speed"], " km/h">>
            /\ pc' = "returned"
            /\ UNCHANGED exc
       ELSE /\ exc' = "KeyError"
            /\ pc' = "raised"
            /\ UNCHANGED result
    /\ UNCHANGED <<op, city, days, it, day, inflight, response, data, parsed,
                   forecast, fetchCalls, fetched>>

Next ==
    \/ Call
    \/ ForecastLoop
    \/ FetchIssue
    \/ ProviderRespond
    \/ TransportFailure
    \/ FetchReturn
    \/ Parse
    \/ ForecastAppend
    \/ ToolLog
    \/ ResourceFormat

Spec == Init /\ [][Next]_vars

(* -------- parse_weather_data as a pure function of every payload ------- *)
InitParse ==
    /\ pc = "parse"
    /\ op = "parse_weather_data"
    /\ city = "none"
    /\ days = 0
    /\ it = 0
    /\ day = 0
    /\ inflight = <<>>
    /\ response = NoResponse
    /\ data \in Payloads
    /\ parsed = Unset
    /\ forecast = <<>>
    /\ fetchCalls = 0
    /\ fetched = <<>>
    /\ result = Unset
    /\ exc = None

NextParse == Parse

SpecParse == InitParse /\ [][NextParse]_vars

(* ------------------------------ properties ----------------------------- *)
RECURSIVE NonErrorRecords(_)
\* the parsed records of the fetch results in s that carry no error key, in order
NonErrorRecords(s) ==
    IF s = <<>> THEN <<>>
    ELSE LET p == parse_weather_data(Head(s))
         IN IF Has(p, "error") THEN NonErrorRecords(Tail(s))
            ELSE <<p>> \o NonErrorRecords(Tail(s))

FiveKeys == {"city", "temperature", "condition", "humidity", "wind_speed"}

\* C1: for every N >= 1, get_forecast(city, N) on provider responses issues
\* exactly N fetches and returns, in call order, the parsed records of the
\* fetches that gave no error record (so at most N records).
C1_ForecastIssuesNAndKeepsSuccesses ==
    (op \in ForecastOps /\ days >= 1 /\ Terminated /\ exc # "ConnectionError")
        => /\ pc = "returned"
           /\ fetchCalls = days
           /\ Len(result) <= days
           /\ result = NonErrorRecords(fetched)

\* C2: a payload without error key whose weather list is empty, or whose main
\* or wind is missing, parses to a record with the matching fields None; no fault.
C2_MissingPartsGiveNone ==
    (/\ op = "parse_weather_data"
     /\ Terminated
     /\ ~Has(data, "error")
     /\ \/ (Has(data, "weather") /\ data["weather"] = <<>>)
        \/ ~Has(data, "main")
        \/ ~Has(data, "wind"))
        => /\ pc = "returned"
           /\ (Has(data, "weather") /\ data["weather"] = <<>>)
                 => result["condition"] = None
           /\ ~Has(data, "main")
                 => (result["temperature"] = None /\ result["humidity"] = None)
           /\ ~Has(data, "wind") => result["wind_speed"] = None

C4_ErrorOrFiveKeys ==
    (op = "parse_weather_data" /\ Terminated)
        => /\ pc = "returned"
           /\ Has(data, "error") => result = [error |-> data["error"]]
           /\ ~Has(data, "error") => DOMAIN result = FiveKeys

WellFormed(d) ==
    /\ DOMAIN d = {"name", "main", "weather", "wind"}
    /\ DOMAIN d["main"] = {"temp", "humidity"}
    /\ d["weather"] # <<>>
    /\ Has(d["weather"][1], "description")
    /\ Has(d["wind"], "speed")

\* C5: a well-formed payload with every nested field and no error key parses
\* to exactly the five fields name, main.temp, weather[0].description,
\* main.humidity, wind.speed.
C5_WellFormedExtractsFive ==
    (op = "parse_weather_data" /\ Terminated /\ WellFormed(data))
        => /\ pc = "returned"
           /\ result = [city |-> data["name"],
                        temperature |-> data["main"]["temp"],
                        condition |-> data["weather"][1]["description"],
                        humidity |-> data["main"]["humidity"],
                        wind_speed |-> data["wind"]["speed"]]

C5_Witness ==
    /\ op = "parse_weather_data"
    /\ pc = "returned"
    /\ data = [name |-> "Paris", main |-> [temp |-> "18.5", humidity |-> "60"],
               weather |-> <<[description |-> "clear sky"],
                             [description |-> "light rain"]>>,
               wind |-> [speed |-> "3.1"]]
    /\ result = [city |-> "Paris", temperature |-> "18.5", condition |-> "clear sky",
                 humidity |-> "60", wind_speed |-> "3.1"]

AllFetchesGaveError ==
    /\ Len(fetched) = fetchCalls
    /\ \A i \in 1 .. Len(fetched) : Has(fetched[i], "error")

\* C6: when every fetch of a get_forecast call gives an error record, the call
\* returns normally with the empty sequence.
C6_AllErrorsGiveEmpty ==
    (op \in ForecastOps /\ days >= 1 /\ Terminated /\ AllFetchesGaveError)
        => /\ pc = "returned"
           /\ result = <<>>
           /\ fetchCalls = days

C6_Witness ==
    /\ op = "get_forecast"
    /\ days = 3
    /\ pc = "returned"
    /\ fetchCalls = 3
    /\ AllFetchesGaveError
    /\ result = <<>>

\* C7: get_weather issues exactly one fetch and its outcome is that of
\* parse_weather_data on the fetch result; on a non-200 response it returns
\* the fetch error record and does not raise.
C7_GetWeatherIsParseOfFetch ==
    (op = "get_weather" /\ Terminated)
        => /\ fetchCalls = 1
           /\ response.status_code # 0
                 => /\ data = fetched[1]
                    /\ IF IsRaise(parse_weather_data(data))
                       THEN pc = "raised" /\ exc = parse_weather_data(data)["raise"]
                       ELSE pc = "returned" /\ result = parse_weather_data(data)
           /\ response.status_code \notin {0, 200}
                 => /\ pc = "returned"
                    /\ result = [error |-> "Unable to fetch weather data"]

C7_Witness ==
    /\ op = "get_weather"
    /\ pc = "returned"
    /\ fetchCalls = 1
    /\ response.status_code = 404
    /\ result = [error |-> "Unable to fetch weather data"]

\* C8: the fetches of one get_forecast call are sequential: at most one request
\* is in flight, and while the fetch of an iteration is in flight every earlier
\* fetch has resolved and its record has been parsed and, if no error, appended.
C8_FetchesSequential ==
    /\ Len(inflight) <= 1
    /\ (op \in ForecastOps /\ pc = "wait")
          => /\ Len(inflight) = 1
             /\ it = fetchCalls
             /\ Len(fetched) = fetchCalls - 1
             /\ forecast = NonErrorRecords(fetched)

C8_Witness ==
    /\ op = "get_forecast"
    /\ pc = "wait"
    /\ fetchCalls = 3
    /\ Len(inflight) = 1
    /\ Len(fetched) = 2
    /\ Len(forecast) = 1

\* C9: the get_weather tool and the weather://{city} resource complete
\* without raising whenever the helper produced a record, the error record of
\* a rejected request included, and the tool returns exactly that record.
C9_ToolReturnsHelperRecord ==
    (op \in {"tool_get_weather", "resource"} /\ Terminated /\ parsed # Unset)
        => /\ pc = "returned"
           /\ op = "tool_get_weather" => result = parsed

\* C10: for days <= 0 get_forecast issues no fetch and returns the empty
\* sequence without raising.
C10_NonPositiveDaysNoFetch ==
    (op \in ForecastOps /\ days <= 0)
        => /\ fetchCalls = 0
           /\ pc # "raised"
           /\ pc \in {"loop", "returned"}
           /\ pc = "returned" => result = <<>>

C10_Witness ==
    /\ op = "get_forecast"
    /\ days = 0 - 1
    /\ pc = "returned"
    /\ fetchCalls = 0
    /\ result = <<>>

====
